---- MODULE Spec2Model ----
(***************************************************************************)
(* hyprgrd Hyprland plugin: command encoders (plugin/helpers.hpp), the     *)
(* one-shot transport, the persistent swipe connection and the three       *)
(* swipe hook callbacks (plugin/main.cpp).                                 *)
(*                                                                         *)
(* A std::string is a sequence of one-character strings.  The fixed pieces *)
(* of a JSON template are kept as single elements of the sequence, the     *)
(* parts computed from the argument are kept character by character.       *)
(***************************************************************************)
EXTENDS Integers, Sequences, FiniteSets, TLC

VARIABLES
    g_swipeFd,       \* main.cpp:130  persistent socket fd, -1 when none
    g_swipeFingers,  \* main.cpp:56   finger count of the current swipe
    conns,           \* every socket this process created, in creation order
    sigpipe,         \* the host's SIGPIPE disposition: "default" or "ignore"
    xdg,             \* the environment's XDG_RUNTIME_DIR: [set, val]
    hostAlive,       \* FALSE once a signal terminated the host process
    loaded,          \* FALSE once PLUGIN_EXIT ran
    ebadf,           \* TRUE once write()/close() was issued on a closed fd
    last,            \* what the most recent host call did and reported
    gesture,         \* observer: the gesture the host is in the middle of
    encArg,          \* encoder check: the argument string
    encOp,           \* encoder check: which builder was applied ("none" before)
    encRes           \* encoder check: the CommandResult it returned

vars == <<g_swipeFd, g_swipeFingers, conns, sigpipe, xdg, hostAlive, loaded,
          ebadf, last, gesture, encArg, encOp, encRes>>

sessionVars == <<g_swipeFd, g_swipeFingers, conns, sigpipe, xdg, hostAlive,
                 loaded, ebadf, last, gesture>>

encVars == <<encArg, encOp, encRes>>

(***************************************************************************)
(* Bounds of the model.                                                    *)
(***************************************************************************)
\* longest argument string given to an encoder
MaxLen == 5
\* sockets the process holds open at once
MaxConns == 2
\* write() calls on one persistent connection before its SwipeEnd
MaxLog == 3
\* lowest descriptor number the host has free when the plugin is loaded
FirstFd == 3

\* the characters argument strings are drawn from
Chars == {" ", "1", "2", "-", "a"}

Digits == <<"0", "1", "2", "3", "4", "5", "6", "7", "8", "9">>

\* int of the target (helpers.hpp:82, 104): 32-bit two's complement
INT_MAX == 2147483647

\* all strings over Chars of length at most n
StringsUpTo(n) == UNION {[1..k -> Chars] : k \in 0..n}

(***************************************************************************)
(* String helpers (helpers.hpp)                                            *)
(***************************************************************************)
\* the set trim() strips: " \t\r\n"
TrimSpace == {" ", "\t", "\r", "\n"}

\* std::isspace in the "C" locale, as the stream's skipws uses it
IsSpace(c) == c \in {" ", "\t", "\n", "\f", "\r"}

IsDigit(c) == \E i \in 1..10 : Digits[i] = c

DigitVal(c) == (CHOOSE i \in 1..10 : Digits[i] = c) - 1

\* s.find_first_not_of(" \t\r\n"): 1-based position, 0 for npos
FindFirstNotOf(s) ==
    IF \E i \in 1..Len(s) : s[i] \notin TrimSpace
    THEN CHOOSE i \in 1..Len(s) :
             /\ s[i] \notin TrimSpace
             /\ \A j \in 1..(i - 1) : s[j] \in TrimSpace
    ELSE 0

\* s.find_last_not_of(" \t\r\n")
FindLastNotOf(s) ==
    IF \E i \in 1..Len(s) : s[i] \notin TrimSpace
    THEN CHOOSE i \in 1..Len(s) :
             /\ s[i] \notin TrimSpace
             /\ \A j \in (i + 1)..Len(s) : s[j] \in TrimSpace
    ELSE 0

trim(s) ==
    LET start == FindFirstNotOf(s)
    IN  IF start = 0 THEN <<>>
        ELSE SubSeq(s, start, FindLastNotOf(s))

\* toupper in the "C" locale
ToUpper(c) ==
    CASE c = "a" -> "A" [] c = "b" -> "B" [] c = "c" -> "C" [] c = "d" -> "D"
      [] c = "e" -> "E" [] c = "f" -> "F" [] c = "g" -> "G" [] c = "h" -> "H"
      [] c = "i" -> "I" [] c = "j" -> "J" [] c = "k" -> "K" [] c = "l" -> "L"
      [] c = "m" -> "M" [] c = "n" -> "N" [] c = "o" -> "O" [] c = "p" -> "P"
      [] c = "q" -> "Q" [] c = "r" -> "R" [] c = "s" -> "S" [] c = "t" -> "T"
      [] c = "u" -> "U" [] c = "v" -> "V" [] c = "w" -> "W" [] c = "x" -> "X"
      [] c = "y" -> "Y" [] c = "z" -> "Z" [] OTHER -> c

\* getenv("XDG_RUNTIME_DIR") is a null pointer when env.set is FALSE, and
\* points to env.val otherwise
socketPath(env) ==
    IF env.set THEN env.val \o <<"/hyprgrd.sock">>
    ELSE <<"/tmp/hyprgrd.sock">>

capitalize(s) ==
    IF s # <<>> THEN <<ToUpper(s[1])>> \o Tail(s) ELSE s

\* a variant that lets every string through
isValidDirection_Any(dir) == TRUE

isValidDirection(dir) ==
    \/ dir = <<"L", "e", "f", "t">>
    \/ dir = <<"R", "i", "g", "h", "t">>
    \/ dir = <<"U", "p">>
    \/ dir = <<"D", "o", "w", "n">>

\* std::to_string of a non-negative value
RECURSIVE DecDigits(_)
DecDigits(n) ==
    IF n < 10 THEN <<Digits[n + 1]>>
    ELSE DecDigits(n \div 10) \o <<Digits[(n % 10) + 1]>>

to_string(n) == IF n < 0 THEN <<"-">> \o DecDigits(-n) ELSE DecDigits(n)

(***************************************************************************)
(* operator>>(int&) of a std::istringstream (skipws, base 10).  A stream   *)
(* is [buf, pos, fail, eof]: pos is the 1-based read position.             *)
(***************************************************************************)
IStream(s) == [buf |-> s, pos |-> 1, fail |-> FALSE, eof |-> FALSE]

RECURSIVE SkipWs(_, _)
SkipWs(s, p) ==
    IF p <= Len(s) /\ IsSpace(s[p]) THEN SkipWs(s, p + 1) ELSE p

RECURSIVE DigitsEnd(_, _)
DigitsEnd(s, p) ==
    IF p <= Len(s) /\ IsDigit(s[p]) THEN DigitsEnd(s, p + 1) ELSE p

\* The magnitude of the digits s[p..q-1] as far as an int can tell:
\* [val, more], where more = 0 when the magnitude is val (at most INT_MAX),
\* 1 when it is exactly INT_MAX + 1 (the magnitude of INT_MIN), 2 when it is
\* larger.
RECURSIVE DigitsMagnitude(_, _, _, _)
DigitsMagnitude(s, p, q, acc) ==
    IF p >= q THEN acc
    ELSE
      LET d   == DigitVal(s[p])
          lim == INT_MAX \div 10
          top == INT_MAX % 10
      IN  DigitsMagnitude(s, p + 1, q,
            IF acc.more > 0 THEN [val |-> INT_MAX, more |-> 2]
            ELSE IF acc.val < lim \/ (acc.val = lim /\ d <= top)
            THEN [val |-> acc.val * 10 + d, more |-> 0]
            ELSE IF acc.val = lim /\ d = top + 1
            THEN [val |-> INT_MAX, more |-> 1]
            ELSE [val |-> INT_MAX, more |-> 2])

\* a variant that stores the nearest int for a value out of range and does
\* not set failbit
ExtractInt_NoRangeCheck(st, old) ==
    IF st.fail \/ st.eof
    THEN [st |-> [st EXCEPT !.fail = TRUE], val |-> old]
    ELSE
      LET s    == st.buf
          p0   == SkipWs(s, st.pos)
          neg  == p0 <= Len(s) /\ s[p0] = "-"
          p1   == IF p0 <= Len(s) /\ s[p0] \in {"-", "+"} THEN p0 + 1 ELSE p0
          p2   == DigitsEnd(s, p1)
          mag  == DigitsMagnitude(s, p1, p2, [val |-> 0, more |-> 0])
          none == p2 = p1
          v    == IF none THEN 0
                  ELSE IF mag.more > 0
                  THEN (IF neg THEN -INT_MAX - 1 ELSE INT_MAX)
                  ELSE IF neg THEN -mag.val ELSE mag.val
      IN  [st  |-> [buf |-> s, pos |-> p2, fail |-> none,
                    eof |-> p2 > Len(s)],
           val |-> v]

\* The sentry fails when the stream is not good(); then num_get reads an
\* optional sign and the digits, stops at the first other character, and
\* sets failbit when there is no digit or the value does not fit an int (the
\* nearest int is stored then).
\* Returns [st |-> the stream afterwards, val |-> the value stored].
ExtractInt(st, old) ==
    IF st.fail \/ st.eof
    THEN [st |-> [st EXCEPT !.fail = TRUE], val |-> old]
    ELSE
      LET s    == st.buf
          p0   == SkipWs(s, st.pos)
          neg  == p0 <= Len(s) /\ s[p0] = "-"
          p1   == IF p0 <= Len(s) /\ s[p0] \in {"-", "+"} THEN p0 + 1 ELSE p0
          p2   == DigitsEnd(s, p1)
          mag  == DigitsMagnitude(s, p1, p2, [val |-> 0, more |-> 0])
          none == p2 = p1
          over == IF neg THEN mag.more = 2 ELSE mag.more >= 1
          v    == IF none THEN 0
                  ELSE IF over THEN (IF neg THEN -INT_MAX - 1 ELSE INT_MAX)
                  ELSE IF neg
                  THEN (IF mag.more = 1 THEN -INT_MAX - 1 ELSE -mag.val)
                  ELSE mag.val
      IN  [st  |-> [buf |-> s, pos |-> p2, fail |-> none \/ over,
                    eof |-> p2 > Len(s)],
           val |-> v]

\* operator>>(std::string&): TRUE when a token was extracted
ExtractWord(st) ==
    IF st.fail \/ st.eof THEN FALSE
    ELSE SkipWs(st.buf, st.pos) <= Len(st.buf)

(***************************************************************************)
(* Command builders (helpers.hpp).  A CommandResult is [ok, value].        *)
(***************************************************************************)
buildGoJson(arg) ==
    LET dir == capitalize(trim(arg))
    IN  IF ~isValidDirection(dir)
        THEN [ok |-> FALSE, value |-> <<"invalid direction: ">> \o arg]
        ELSE [ok |-> TRUE, value |-> <<"{\"Go\":\"">> \o dir \o <<"\"}">>]

buildMoveGoJson(arg) ==
    LET dir == capitalize(trim(arg))
    IN  IF ~isValidDirection(dir)
        THEN [ok |-> FALSE, value |-> <<"invalid direction: ">> \o arg]
        ELSE [ok |-> TRUE,
              value |-> <<"{\"MoveWindowAndGo\":\"">> \o dir \o <<"\"}">>]

buildSwitchJson(arg) ==
    LET r1  == ExtractInt(IStream(trim(arg)), 0)
        r2  == ExtractInt(r1.st, 0)
        col == r1.val
        row == r2.val
    IN  IF r2.st.fail \/ col < 0 \/ row < 0
        THEN [ok |-> FALSE,
              value |-> <<"expected: <col> <row> (non-negative integers)">>]
        ELSE [ok |-> TRUE,
              value |-> <<"{\"SwitchTo\":{\"x\":">> \o to_string(col)
                        \o <<",\"y\":">> \o to_string(row) \o <<"}}">>]

\* a variant whose error text carries the trimmed, capitalized argument
buildMoveToMonitorJson_CookedError(arg) ==
    LET dir == capitalize(trim(arg))
    IN  IF ~isValidDirection(dir)
        THEN [ok |-> FALSE, value |-> <<"invalid direction: ">> \o dir]
        ELSE [ok |-> TRUE,
              value |-> <<"{\"MoveWindowToMonitor\":\"">> \o dir \o <<"\"}">>]

buildMoveToMonitorJson(arg) ==
    LET dir == capitalize(trim(arg))
    IN  IF ~isValidDirection(dir)
        THEN [ok |-> FALSE, value |-> <<"invalid direction: ">> \o arg]
        ELSE [ok |-> TRUE,
              value |-> <<"{\"MoveWindowToMonitor\":\"">> \o dir \o <<"\"}">>]

\* a variant without the check for text after the number
buildMoveToMonitorIndexJson_NoLeftover(arg) ==
    LET r1  == ExtractInt(IStream(trim(arg)), -1)
        idx == r1.val
    IN  IF r1.st.fail \/ idx < 0
        THEN [ok |-> FALSE,
              value |-> <<"expected: <n> (non-negative integer)">>]
        ELSE [ok |-> TRUE,
              value |-> <<"{\"MoveWindowToMonitorIndex\":">> \o to_string(idx)
                        \o <<"}">>]

buildMoveToMonitorIndexJson(arg) ==
    LET r1  == ExtractInt(IStream(trim(arg)), -1)
        idx == r1.val
    IN  IF r1.st.fail \/ idx < 0
        THEN [ok |-> FALSE,
              value |-> <<"expected: <n> (non-negative integer)">>]
        ELSE IF ExtractWord(r1.st)
        THEN [ok |-> FALSE,
              value |-> <<"expected a single non-negative integer">>]
        ELSE [ok |-> TRUE,
              value |-> <<"{\"MoveWindowToMonitorIndex\":">> \o to_string(idx)
                        \o <<"}">>]

(***************************************************************************)
(* Swipe event builders (helpers.hpp).  A double is an integer number of   *)
(* millionths, so "%.6f" prints it exactly.                                *)
(***************************************************************************)
Abs(x) == IF x < 0 THEN -x ELSE x

Pow10(k) == IF k = 0 THEN 1 ELSE IF k = 1 THEN 10 ELSE IF k = 2 THEN 100
            ELSE IF k = 3 THEN 1000 ELSE IF k = 4 THEN 10000
            ELSE IF k = 5 THEN 100000 ELSE 1000000

\* printf("%.6f", x / 10^6)
FormatF6(x) ==
    (IF x < 0 THEN <<"-">> ELSE <<>>)
    \o DecDigits(Abs(x) \div Pow10(6)) \o <<".">>
    \o [i \in 1..6 |-> Digits[((Abs(x) \div Pow10(6 - i)) % 10) + 1]]

buildSwipeBeginJson(fingers) ==
    <<"{\"SwipeBegin\":{\"fingers\":">> \o to_string(fingers) \o <<"}}">>

buildSwipeUpdateJson(fingers, dx, dy) ==
    <<"{\"SwipeUpdate\":{\"fingers\":">> \o to_string(fingers)
    \o <<",\"dx\":">> \o FormatF6(dx) \o <<",\"dy\":">> \o FormatF6(dy)
    \o <<"}}">>

buildSwipeEndJson == <<"\"SwipeEnd\"">>

(***************************************************************************)
(* The kernel's side of the sockets.  conns[i] is the i-th socket the      *)
(* process created: [fd, kind, open, connected, peerOpen, log], where log  *)
(* is the sequence of write() calls made on it, [msg, res], res one of     *)
(* "full" (all bytes taken), "short" (fewer bytes taken) and "epipe" (the  *)
(* peer has closed: EPIPE, and SIGPIPE is raised).                         *)
(*                                                                         *)
(* A handler is computed on a record m of the process: fd and fingers are  *)
(* the two globals, conns the sockets, alive whether the process still     *)
(* runs, ret / ok the value the last call returned, cancelled the          *)
(* SCallbackInfo flag, and writes / opens / closes count the system calls  *)
(* the handler made.                                                       *)
(***************************************************************************)
WriteOutcomes == {"full", "short", "epipe"}

FdOpen(cs, fd) == \E i \in 1..Len(cs) : cs[i].open /\ cs[i].fd = fd

ConnOf(cs, fd) == CHOOSE i \in 1..Len(cs) : cs[i].open /\ cs[i].fd = fd

\* socket() returns the lowest descriptor number that is not open
LowestFreeFd(cs) ==
    CHOOSE n \in FirstFd..(FirstFd + Len(cs)) :
        /\ ~FdOpen(cs, n)
        /\ \A k \in FirstFd..(n - 1) : FdOpen(cs, k)

sys_socket(m, kind, sockOk) ==
    IF ~m.alive THEN m
    ELSE IF ~sockOk THEN [m EXCEPT !.ret = -1]
    ELSE LET f == LowestFreeFd(m.conns)
         IN  [m EXCEPT !.conns = Append(@, [fd |-> f, kind |-> kind,
                                            open |-> TRUE, connected |-> FALSE,
                                            peerOpen |-> FALSE, path |-> <<>>,
                                            log |-> <<>>]),
                       !.opens = @ + 1,
                       !.ret = f]

\* connect(fd, addr): addr.sun_path is socketPath() as the caller just
\* computed it (main.cpp:67-68, 149-150)
sys_connect(m, fd, connOk) ==
    IF ~m.alive THEN m
    ELSE IF ~connOk THEN [m EXCEPT !.ret = -1]
    ELSE LET i == ConnOf(m.conns, fd)
         IN  [m EXCEPT !.conns[i].connected = TRUE,
                       !.conns[i].peerOpen = TRUE,
                       !.conns[i].path = socketPath(xdg),
                       !.ret = 0]

\* write(fd, msg, size): the return value is the number of elements taken
sys_write(m, fd, msg, w) ==
    IF ~m.alive THEN m
    ELSE IF ~FdOpen(m.conns, fd)
    THEN [m EXCEPT !.ebadf = TRUE, !.writes = @ + 1, !.ret = -1]
    ELSE LET i   == ConnOf(m.conns, fd)
             res == IF m.conns[i].peerOpen THEN w ELSE "epipe"
         IN  [m EXCEPT !.conns[i].log = Append(@, [msg |-> msg, res |-> res]),
                       !.conns[i].peerOpen = @ /\ res # "epipe",
                       !.writes = @ + 1,
                       !.alive = ~(res = "epipe" /\ sigpipe = "default"),
                       !.ret = IF res = "full" THEN Len(msg)
                               ELSE IF res = "short" THEN Len(msg) - 1
                               ELSE -1]

sys_close(m, fd) ==
    IF ~m.alive THEN m
    ELSE IF ~FdOpen(m.conns, fd)
    THEN [m EXCEPT !.ebadf = TRUE, !.closes = @ + 1, !.ret = -1]
    ELSE LET i == ConnOf(m.conns, fd)
         IN  [m EXCEPT !.conns[i].open = FALSE,
                       !.closes = @ + 1,
                       !.ret = 0]

\* an assignment to a global or to a local: skipped once the process is dead
Assign(m, field, v) == IF m.alive THEN [m EXCEPT ![field] = v] ELSE m

(***************************************************************************)
(* main.cpp: transport                                                     *)
(***************************************************************************)
\* a variant that writes the message a second time when the first write was
\* not whole
sendCommand_Retry(m, json, sockOk, connOk, w) ==
    LET m1  == sys_socket(m, "oneshot", sockOk)
        fd  == m1.ret
    IN  IF fd < 0 THEN Assign(m1, "ok", FALSE)
        ELSE
          LET m2 == sys_connect(m1, fd, connOk)
          IN  IF m2.ret < 0 THEN Assign(sys_close(m2, fd), "ok", FALSE)
              ELSE
                LET msg     == json \o <<"\n">>
                    m3      == sys_write(m2, fd, msg, w)
                    m3b     == IF m3.ret # Len(msg)
                               THEN sys_write(m3, fd, msg, "full") ELSE m3
                    written == m3b.ret
                    m4      == sys_close(m3b, fd)
                IN  Assign(m4, "ok", written = Len(msg))

\* a variant that returns without closing when connect() fails
sendCommand_LeakOnConnectFail(m, json, sockOk, connOk, w) ==
    LET m1  == sys_socket(m, "oneshot", sockOk)
        fd  == m1.ret
    IN  IF fd < 0 THEN Assign(m1, "ok", FALSE)
        ELSE
          LET m2 == sys_connect(m1, fd, connOk)
          IN  IF m2.ret < 0 THEN Assign(m2, "ok", FALSE)
              ELSE
                LET msg     == json \o <<"\n">>
                    m3      == sys_write(m2, fd, msg, w)
                    written == m3.ret
                    m4      == sys_close(m3, fd)
                IN  Assign(m4, "ok", written = Len(msg))

\* a variant that reports success for any write that took at least one byte
sendCommand_AnyWrite(m, json, sockOk, connOk, w) ==
    LET m1  == sys_socket(m, "oneshot", sockOk)
        fd  == m1.ret
    IN  IF fd < 0 THEN Assign(m1, "ok", FALSE)
        ELSE
          LET m2 == sys_connect(m1, fd, connOk)
          IN  IF m2.ret < 0 THEN Assign(sys_close(m2, fd), "ok", FALSE)
              ELSE
                LET msg     == json \o <<"\n">>
                    m3      == sys_write(m2, fd, msg, w)
                    written == m3.ret
                    m4      == sys_close(m3, fd)
                IN  Assign(m4, "ok", written > 0)

sendCommand(m, json, sockOk, connOk, w) ==
    LET m1  == sys_socket(m, "oneshot", sockOk)
        fd  == m1.ret
    IN  IF fd < 0 THEN Assign(m1, "ok", FALSE)
        ELSE
          LET m2 == sys_connect(m1, fd, connOk)
          IN  IF m2.ret < 0 THEN Assign(sys_close(m2, fd), "ok", FALSE)
              ELSE
                LET msg     == json \o <<"\n">>
                    m3      == sys_write(m2, fd, msg, w)
                    written == m3.ret
                    m4      == sys_close(m3, fd)
                IN  Assign(m4, "ok", written = Len(msg))

\* a variant without the check that a connection is held
swipeSend_NoGuard(m, json, w) ==
    sys_write(m, m.fd, json \o <<"\n">>, w)

swipeSend(m, json, w) ==
    IF m.fd < 0 THEN m
    ELSE sys_write(m, m.fd, json \o <<"\n">>, w)

\* a variant that closes the socket when connect() fails but keeps its number
\* in g_swipeFd
swipeConnect_KeepsFdOnFail(m, sockOk, connOk) ==
    LET m1 == sys_socket(m, "swipe", sockOk)
        m2 == Assign(m1, "fd", m1.ret)
    IN  IF m2.fd < 0 THEN Assign(m2, "ok", FALSE)
        ELSE
          LET m3 == sys_connect(m2, m2.fd, connOk)
          IN  IF m3.ret < 0
              THEN Assign(sys_close(m3, m3.fd), "ok", FALSE)
              ELSE Assign(m3, "ok", TRUE)

swipeConnect(m, sockOk, connOk) ==
    LET m1 == sys_socket(m, "swipe", sockOk)
        m2 == Assign(m1, "fd", m1.ret)
    IN  IF m2.fd < 0 THEN Assign(m2, "ok", FALSE)
        ELSE
          LET m3 == sys_connect(m2, m2.fd, connOk)
          IN  IF m3.ret < 0
              THEN Assign(Assign(sys_close(m3, m3.fd), "fd", -1), "ok", FALSE)
              ELSE Assign(m3, "ok", TRUE)

\* a variant that closes the descriptor but keeps its number in g_swipeFd
swipeDisconnect_NoReset(m) ==
    IF m.fd >= 0 THEN sys_close(m, m.fd) ELSE m

swipeDisconnect(m) ==
    IF m.fd >= 0 THEN Assign(sys_close(m, m.fd), "fd", -1) ELSE m

(***************************************************************************)
(* main.cpp: the three swipe hook callbacks and PLUGIN_EXIT.  The host     *)
(* passes SCallbackInfo with cancelled = false; "claim" is cancelled =     *)
(* true when the callback returns.                                         *)
(***************************************************************************)
\* a variant that connects but never sends SwipeBegin
swipeBeginCb_NoSend(m, sockOk, connOk, w) ==
    LET m1 == Assign(m, "fingers", 3)
        m2 == swipeConnect(m1, sockOk, connOk)
    IN  Assign(m2, "cancelled", TRUE)

swipeBeginCb(m, sockOk, connOk, w) ==
    LET m1 == Assign(m, "fingers", 3)
        m2 == swipeConnect(m1, sockOk, connOk)
        m3 == IF m2.ok THEN swipeSend(m2, buildSwipeBeginJson(m2.fingers), w)
              ELSE m2
    IN  Assign(m3, "cancelled", TRUE)

\* a variant without the early return on g_swipeFd < 0
swipeUpdateCb_NoIdleReturn(m, ev, w) ==
    LET m1 == IF ev.decodes
              THEN swipeSend(m, buildSwipeUpdateJson(ev.fingers, ev.dx, ev.dy), w)
              ELSE m
    IN  Assign(m1, "cancelled", TRUE)

\* a variant that sends the finger count recorded at Begin
swipeUpdateCb_RecordedFingers(m, ev, w) ==
    IF m.fd < 0 THEN m
    ELSE
      LET m1 == IF ev.decodes
                THEN swipeSend(m, buildSwipeUpdateJson(m.fingers, ev.dx, ev.dy), w)
                ELSE m
      IN  Assign(m1, "cancelled", TRUE)

\* ev.decodes: std::any_cast<SSwipeUpdateEvent>(data) does not throw
swipeUpdateCb(m, ev, w) ==
    IF m.fd < 0 THEN m
    ELSE
      LET m1 == IF ev.decodes
                THEN swipeSend(m, buildSwipeUpdateJson(ev.fingers, ev.dx, ev.dy), w)
                ELSE m
      IN  Assign(m1, "cancelled", TRUE)

\* a variant that sends SwipeEnd and keeps the connection
swipeEndCb_KeepsOpen(m, w) ==
    LET m1 == swipeSend(m, buildSwipeEndJson, w)
    IN  Assign(m1, "cancelled", TRUE)

\* a variant that disconnects before it sends
swipeEndCb_CloseFirst(m, w) ==
    LET m1 == swipeDisconnect(m)
        m2 == swipeSend(m1, buildSwipeEndJson, w)
    IN  Assign(m2, "cancelled", TRUE)

swipeEndCb(m, w) ==
    LET m1 == swipeSend(m, buildSwipeEndJson, w)
        m2 == swipeDisconnect(m1)
    IN  Assign(m2, "cancelled", TRUE)

\* a variant that ends the gesture as swipeEnd does before it disconnects
pluginExit_SendsEnd(m) ==
    swipeDisconnect(swipeSend(m, buildSwipeEndJson, "full"))

pluginExit(m) == swipeDisconnect(m)

(***************************************************************************)
(* main.cpp: dispatchers.  An SDispatchResult is [success, error].         *)
(***************************************************************************)
DispatchOk == [success |-> TRUE, error |-> <<>>]

DispatchFail(text) == [success |-> FALSE, error |-> text]

\* a variant that sends whatever the encoder returned before it looks at
\* the encoder's verdict
dispatchWith_SendAnyway(m, result, sockOk, connOk, w) ==
    LET m1 == sendCommand(m, result.value, sockOk, connOk, w)
    IN  Assign(m1, "result",
               IF ~result.ok THEN DispatchFail(result.value)
               ELSE IF m1.ok THEN DispatchOk
               ELSE DispatchFail(<<"failed to send command">>))

\* the common body of the five argument-taking dispatchers
dispatchWith(m, result, sockOk, connOk, w) ==
    IF ~result.ok THEN Assign(m, "result", DispatchFail(result.value))
    ELSE
      LET m1 == sendCommand(m, result.value, sockOk, connOk, w)
      IN  Assign(m1, "result",
                 IF m1.ok THEN DispatchOk
                 ELSE DispatchFail(<<"failed to send command">>))

\* a variant that uses the gesture's connection when one is held
dispatchGo_OnSession(m, arg, sockOk, connOk, w) ==
    LET result == buildGoJson(arg)
    IN  IF result.ok /\ m.fd >= 0
        THEN Assign(swipeSend(m, result.value, w), "result", DispatchOk)
        ELSE dispatchWith(m, result, sockOk, connOk, w)

dispatchGo(m, arg, sockOk, connOk, w) ==
    dispatchWith(m, buildGoJson(arg), sockOk, connOk, w)

dispatchMoveGo(m, arg, sockOk, connOk, w) ==
    dispatchWith(m, buildMoveGoJson(arg), sockOk, connOk, w)

dispatchSwitch(m, arg, sockOk, connOk, w) ==
    dispatchWith(m, buildSwitchJson(arg), sockOk, connOk, w)

dispatchMoveToMonitor(m, arg, sockOk, connOk, w) ==
    dispatchWith(m, buildMoveToMonitorJson(arg), sockOk, connOk, w)

dispatchMoveToMonitorIndex(m, arg, sockOk, connOk, w) ==
    dispatchWith(m, buildMoveToMonitorIndexJson(arg), sockOk, connOk, w)

\* a variant that accepts only the empty argument
dispatchToggleVis_ChecksArg(m, arg, sockOk, connOk, w) ==
    IF trim(arg) # <<>>
    THEN Assign(m, "result", DispatchFail(<<"unexpected argument">>))
    ELSE
      LET json == <<"\"ToggleVisualizer\"">>
          m1   == sendCommand(m, json, sockOk, connOk, w)
      IN  Assign(m1, "result",
                 IF m1.ok THEN DispatchOk
                 ELSE DispatchFail(<<"failed to send command">>))

dispatchToggleVis(m, arg, sockOk, connOk, w) ==
    LET json == <<"\"ToggleVisualizer\"">>
        m1   == sendCommand(m, json, sockOk, connOk, w)
    IN  Assign(m1, "result",
               IF m1.ok THEN DispatchOk
               ELSE DispatchFail(<<"failed to send command">>))

(***************************************************************************)
(* The state machine.  The host calls the dispatchers and the callbacks    *)
(* one at a time (single-threaded event loop); each call is one step.      *)
(***************************************************************************)
NoResult == [success |-> FALSE, error |-> <<>>]

NoEncRes == [ok |-> FALSE, value |-> <<>>]

\* The sockets that exist when a handler starts.  conns keeps a socket that
\* the most recent call closed until the next call, so that what was written
\* on it before the close can still be read; after that it is forgotten.
\* What was written on a socket that is still open but that the session no
\* longer holds (no later call has its descriptor) is forgotten likewise.
IsOpen(c) == c.open

Held(c) == c.fd = g_swipeFd

Forget(c) == IF Held(c) THEN c ELSE [c EXCEPT !.log = <<>>]

OpenConns ==
    LET cs == SelectSeq(conns, IsOpen)
    IN  [i \in 1..Len(cs) |-> Forget(cs[i])]

\* the process as a handler finds it
Cur ==
    [fd |-> g_swipeFd, fingers |-> g_swipeFingers, conns |-> OpenConns,
     alive |-> TRUE, ebadf |-> ebadf, ret |-> 0, ok |-> FALSE,
     cancelled |-> FALSE, result |-> NoResult,
     writes |-> 0, opens |-> 0, closes |-> 0]

\* the Update payloads the host delivers: one that does not decode, and one
\* that does (fingers, dx, dy in millionths)
UpdateEvents ==
    {[decodes |-> FALSE, fingers |-> 0, dx |-> 0, dy |-> 0],
     [decodes |-> TRUE, fingers |-> 4, dx |-> 10500000, dy |-> -2300000]}

\* the finger counts of the gestures the host starts
BeginFingers == {3, 4}

\* the arguments the host passes to the dispatchers
DirectionArgs == {<<" ", "u", "p">>, <<"x">>}

SwitchArgs == {<<"1", " ", "2">>, <<"2">>}

IndexArgs == {<<"2">>, <<"1", " ", "2">>}

ToggleArgs == {<<>>, <<" ">>, <<"x">>}

\* what socket(), connect() and write() do in one call: socket() fails;
\* connect() fails; or the write is whole, short, or hits a closed peer
IoOutcomes ==
    {[sockOk |-> FALSE, connOk |-> FALSE, w |-> "full"],
     [sockOk |-> TRUE, connOk |-> FALSE, w |-> "full"]}
    \cup {[sockOk |-> TRUE, connOk |-> TRUE, w |-> x] : x \in WriteOutcomes}

\* XDG_RUNTIME_DIR as the host process may have it: unset, set to the empty
\* string, set to a directory
EnvValues ==
    {[set |-> FALSE, val |-> <<>>],
     [set |-> TRUE, val |-> <<>>],
     [set |-> TRUE, val |-> <<"/run/user/1000">>]}

CanCall == hostAlive /\ loaded

\* socket() succeeds only while the model has room for one more socket
Room(sockOk) == sockOk => Len(OpenConns) < MaxConns

\* the persistent connection has room for one more write before SwipeEnd
LogRoom ==
    (g_swipeFd >= 0 /\ FdOpen(conns, g_swipeFd))
        => Len(conns[ConnOf(conns, g_swipeFd)].log) < MaxLog

NextGesture(op, m, connectOk) ==
    IF op = "swipeBegin"
    THEN [open |-> TRUE, claimed |-> m.cancelled, failed |-> ~connectOk]
    ELSE IF op = "swipeEnd" THEN [gesture EXCEPT !.open = FALSE]
    ELSE gesture

\* the handler ran on an event of evFingers fingers and left the process as m
CommitEv(op, arg, evFingers, m, connectOk, decodes) ==
    /\ g_swipeFd' = m.fd
    /\ g_swipeFingers' = m.fingers
    /\ conns' = m.conns
    /\ hostAlive' = m.alive
    /\ loaded' = (op # "PLUGIN_EXIT")
    /\ ebadf' = m.ebadf
    /\ last' = [op |-> op, arg |-> arg, prevEnd |-> last.op = "swipeEnd",
                evFingers |-> evFingers,
                returned |-> m.alive, cancelled |-> m.cancelled,
                result |-> m.result, writes |-> m.writes, opens |-> m.opens,
                closes |-> m.closes, preFd |-> g_swipeFd,
                preFingers |-> g_swipeFingers,
                connectOk |-> connectOk, decodes |-> decodes,
                inGesture |-> gesture.open,
                beginClaimed |-> gesture.claimed,
                afterFailedBegin |-> gesture.failed]
    /\ gesture' = NextGesture(op, m, connectOk)
    /\ UNCHANGED <<sigpipe, xdg, encVars>>

\* the handler ran and left the process as m
Commit(op, arg, m, connectOk, decodes) ==
    CommitEv(op, arg, 0, m, connectOk, decodes)

Init ==
    /\ g_swipeFd = -1
    /\ g_swipeFingers = 0
    /\ conns = <<>>
    /\ sigpipe \in {"default", "ignore"}
    /\ xdg \in EnvValues
    /\ hostAlive = TRUE
    /\ loaded = TRUE
    /\ ebadf = FALSE
    /\ last = [op |-> "none", arg |-> <<>>, prevEnd |-> FALSE, evFingers |-> 0,
               returned |-> TRUE, cancelled |-> FALSE,
               result |-> NoResult, writes |-> 0, opens |-> 0, closes |-> 0,
               preFd |-> -1, preFingers |-> 0,
               connectOk |-> FALSE, decodes |-> FALSE,
               inGesture |-> FALSE, beginClaimed |-> FALSE,
               afterFailedBegin |-> FALSE]
    /\ gesture = [open |-> FALSE, claimed |-> FALSE, failed |-> FALSE]
    /\ encArg = <<>>
    /\ encOp = "none"
    /\ encRes = NoEncRes

\* the data of the Begin event is not looked at (std::any /*data*/)
SwipeBegin ==
    \E io \in IoOutcomes, f \in BeginFingers :
        /\ CanCall
        /\ Room(io.sockOk)
        /\ CommitEv("swipeBegin", <<>>, f,
                    swipeBeginCb(Cur, io.sockOk, io.connOk, io.w),
                    io.sockOk /\ io.connOk, FALSE)

SwipeUpdate ==
    \E ev \in UpdateEvents, w \in WriteOutcomes :
        /\ CanCall
        /\ LogRoom
        /\ Commit("swipeUpdate", <<>>, swipeUpdateCb(Cur, ev, w), FALSE, ev.decodes)

SwipeEnd ==
    \E w \in WriteOutcomes :
        /\ CanCall
        /\ Commit("swipeEnd", <<>>, swipeEndCb(Cur, w), FALSE, FALSE)

PluginExit ==
    /\ CanCall
    /\ Commit("PLUGIN_EXIT", <<>>, pluginExit(Cur), FALSE, FALSE)

DispatchGo ==
    \E arg \in DirectionArgs, io \in IoOutcomes :
        /\ CanCall
        /\ Room(io.sockOk)
        /\ Commit("go", arg, dispatchGo(Cur, arg, io.sockOk, io.connOk, io.w),
                  io.sockOk /\ io.connOk, FALSE)

DispatchMoveGo ==
    \E arg \in DirectionArgs, io \in IoOutcomes :
        /\ CanCall
        /\ Room(io.sockOk)
        /\ Commit("movego", arg,
                  dispatchMoveGo(Cur, arg, io.sockOk, io.connOk, io.w),
                  io.sockOk /\ io.connOk, FALSE)

DispatchSwitch ==
    \E arg \in SwitchArgs, io \in IoOutcomes :
        /\ CanCall
        /\ Room(io.sockOk)
        /\ Commit("switch", arg,
                  dispatchSwitch(Cur, arg, io.sockOk, io.connOk, io.w),
                  io.sockOk /\ io.connOk, FALSE)

DispatchMoveToMonitor ==
    \E arg \in DirectionArgs, io \in IoOutcomes :
        /\ CanCall
        /\ Room(io.sockOk)
        /\ Commit("movetomonitor", arg,
                  dispatchMoveToMonitor(Cur, arg, io.sockOk, io.connOk, io.w),
                  io.sockOk /\ io.connOk, FALSE)

DispatchMoveToMonitorIndex ==
    \E arg \in IndexArgs, io \in IoOutcomes :
        /\ CanCall
        /\ Room(io.sockOk)
        /\ Commit("movetomonitorindex", arg,
                  dispatchMoveToMonitorIndex(Cur, arg, io.sockOk, io.connOk, io.w),
                  io.sockOk /\ io.connOk, FALSE)

DispatchToggleVis ==
    \E arg \in ToggleArgs, io \in IoOutcomes :
        /\ CanCall
        /\ Room(io.sockOk)
        /\ Commit("togglevis", arg,
                  dispatchToggleVis(Cur, arg, io.sockOk, io.connOk, io.w),
                  io.sockOk /\ io.connOk, FALSE)

\* the daemon closes its end of the connection the session holds (it exits,
\* or drops the client)
DaemonClose ==
    \E i \in 1..Len(conns) :
        /\ hostAlive
        /\ conns[i].open /\ conns[i].connected /\ conns[i].peerOpen
        /\ Held(conns[i])
        /\ conns' = [conns EXCEPT ![i].peerOpen = FALSE]
        /\ UNCHANGED <<g_swipeFd, g_swipeFingers, sigpipe, xdg, hostAlive,
                       loaded, ebadf, last, gesture, encVars>>

\* the host process (or another plugin in it) changes XDG_RUNTIME_DIR
SetEnv ==
    \E v \in EnvValues \ {xdg} :
        /\ hostAlive
        /\ xdg' = v
        /\ UNCHANGED <<g_swipeFd, g_swipeFingers, conns, sigpipe, hostAlive,
                       loaded, ebadf, last, gesture, encVars>>

Next ==
    \/ SwipeBegin
    \/ SwipeUpdate
    \/ SwipeEnd
    \/ PluginExit
    \/ DispatchGo
    \/ DispatchMoveGo
    \/ DispatchSwitch
    \/ DispatchMoveToMonitor
    \/ DispatchMoveToMonitorIndex
    \/ DispatchToggleVis
    \/ DaemonClose

Spec == Init /\ [][Next]_vars

(***************************************************************************)
(* The same process with an environment that changes between host calls:   *)
(* gestures, one dispatcher and the unload.                                *)
(***************************************************************************)
NextEnv ==
    \/ SetEnv
    \/ SwipeBegin
    \/ SwipeEnd
    \/ DispatchToggleVis
    \/ PluginExit

SpecEnv == Init /\ [][NextEnv]_vars

(***************************************************************************)
(* The encoders alone: the argument is drawn at the start and one builder  *)
(* is applied to it.                                                       *)
(***************************************************************************)
\* every mix of lower and upper case of a lower-case word
CaseVariants(word) ==
    {[i \in 1..Len(word) |-> IF up[i] THEN ToUpper(word[i]) ELSE word[i]] :
        up \in [1..Len(word) -> BOOLEAN]}

\* a string as it is, and with whitespace before, after and around it
Padded(s) ==
    {s, <<" ">> \o s, s \o <<" ", " ">>, <<"\t", " ">> \o s \o <<"\n">>}

DirectionWords ==
    {<<"l", "e", "f", "t">>, <<"r", "i", "g", "h", "t">>, <<"u", "p">>,
     <<"d", "o", "w", "n">>}

\* near misses of the direction words, and integers the alphabet cannot spell
OtherArgs ==
    {<<"l", "e", "f", "t", "s">>, <<"u", " ", "p">>, <<"u", "p", " ", "u", "p">>,
     <<"d", "i", "a", "g", "o", "n", "a", "l">>,
     <<"0">>, <<"4", "2">>, <<"-", "0">>, <<"+", "1">>, <<"1", ".", "5">>,
     <<"0", " ", "0">>}

\* arguments with a double quote, a backslash or a newline in them
InjectionArgs ==
    {<<"u", "p", "\"">>, <<"u", "p", "\\">>, <<"u", "p", "\n">>,
     <<"u", "p", "\n", "u", "p">>,
     <<"U", "p", "\"", "}", "\n", "{", "\"", "G", "o", "\"">>,
     <<"1", " ", "2", "\n", "1">>, <<"1", " ", "2", "\"">>,
     <<"1", "\n", "2">>, <<"1", "\\", "2">>, <<"2", "\"">>, <<"2", "\n">>,
     <<"\"", "2", "\"">>}

EncArgs ==
    StringsUpTo(MaxLen)
    \cup UNION {Padded(v) : v \in UNION {CaseVariants(d) : d \in DirectionWords}}
    \cup OtherArgs
    \cup InjectionArgs

InitEnc ==
    /\ g_swipeFd = -1
    /\ g_swipeFingers = 0
    /\ conns = <<>>
    /\ sigpipe = "default"
    /\ xdg \in EnvValues
    /\ hostAlive = TRUE
    /\ loaded = TRUE
    /\ ebadf = FALSE
    /\ last = [op |-> "none", arg |-> <<>>, prevEnd |-> FALSE, evFingers |-> 0,
               returned |-> TRUE, cancelled |-> FALSE,
               result |-> NoResult, writes |-> 0, opens |-> 0, closes |-> 0,
               preFd |-> -1, preFingers |-> 0,
               connectOk |-> FALSE, decodes |-> FALSE,
               inGesture |-> FALSE, beginClaimed |-> FALSE,
               afterFailedBegin |-> FALSE]
    /\ gesture = [open |-> FALSE, claimed |-> FALSE, failed |-> FALSE]
    /\ encArg \in EncArgs
    /\ encOp = "none"
    /\ encRes = NoEncRes

Apply(op, res) ==
    /\ encOp = "none"
    /\ encOp' = op
    /\ encRes' = res
    /\ UNCHANGED <<encArg, sessionVars>>

EncGo == Apply("go", buildGoJson(encArg))

EncMoveGo == Apply("movego", buildMoveGoJson(encArg))

EncSwitch == Apply("switch", buildSwitchJson(encArg))

EncMoveToMonitor == Apply("movetomonitor", buildMoveToMonitorJson(encArg))

EncMoveToMonitorIndex ==
    Apply("movetomonitorindex", buildMoveToMonitorIndexJson(encArg))

EncSocketPath == Apply("socketPath", [ok |-> TRUE, value |-> socketPath(xdg)])

NextEnc ==
    \/ EncGo
    \/ EncMoveGo
    \/ EncSwitch
    \/ EncMoveToMonitor
    \/ EncMoveToMonitorIndex
    \/ EncSocketPath

SpecEnc == InitEnc /\ [][NextEnc]_vars

(***************************************************************************)
(* The encoders on integers at and beyond the range of int.                *)
(***************************************************************************)
WideNumbers ==
    {<<"2", "1", "4", "7", "4", "8", "3", "6", "4", "7">>,
     <<"2", "1", "4", "7", "4", "8", "3", "6", "4", "8">>,
     <<"2", "1", "4", "7", "4", "8", "3", "6", "5", "0">>,
     <<"4", "2", "9", "4", "9", "6", "7", "2", "9", "6">>,
     <<"4", "2", "9", "4", "9", "6", "7", "2", "9", "7">>,
     <<"9", "9", "9", "9", "9", "9", "9", "9", "9", "9", "9">>,
     <<"0", "0", "0", "0", "0", "0", "0", "0", "0", "0", "7">>,
     <<"+", "2", "1", "4", "7", "4", "8", "3", "6", "4", "7">>,
     <<"+", "2", "1", "4", "7", "4", "8", "3", "6", "4", "8">>,
     <<"-", "2", "1", "4", "7", "4", "8", "3", "6", "4", "8">>,
     <<"-", "2", "1", "4", "7", "4", "8", "3", "6", "4", "9">>,
     <<"0">>, <<"0", "7">>, <<"1", "0">>}

\* each number alone, padded, and paired with each other number
WideArgs ==
    WideNumbers
    \cup {<<" ">> \o a \o <<" ">> : a \in WideNumbers}
    \cup {a \o <<" ">> \o b : a \in WideNumbers, b \in WideNumbers}

InitWide ==
    /\ g_swipeFd = -1
    /\ g_swipeFingers = 0
    /\ conns = <<>>
    /\ sigpipe = "default"
    /\ xdg = [set |-> FALSE, val |-> <<>>]
    /\ hostAlive = TRUE
    /\ loaded = TRUE
    /\ ebadf = FALSE
    /\ last = [op |-> "none", arg |-> <<>>, prevEnd |-> FALSE, evFingers |-> 0,
               returned |-> TRUE, cancelled |-> FALSE,
               result |-> NoResult, writes |-> 0, opens |-> 0, closes |-> 0,
               preFd |-> -1, preFingers |-> 0,
               connectOk |-> FALSE, decodes |-> FALSE,
               inGesture |-> FALSE, beginClaimed |-> FALSE,
               afterFailedBegin |-> FALSE]
    /\ gesture = [open |-> FALSE, claimed |-> FALSE, failed |-> FALSE]
    /\ encArg \in WideArgs
    /\ encOp = "none"
    /\ encRes = NoEncRes

NextWide ==
    \/ EncSwitch
    \/ EncMoveToMonitorIndex

SpecWide == InitWide /\ [][NextWide]_vars

(***************************************************************************)
(* Properties.  last describes the most recent host call: the callback or  *)
(* dispatcher (op), the session's descriptor and finger count when it      *)
(* started (preFd, preFingers), whether it returned to the host            *)
(* (returned), the cancellation flag it left (cancelled), and the system   *)
(* calls it made (writes, opens, closes).                                  *)
(***************************************************************************)
\* the log of the connection the session holds
HeldLog ==
    IF FdOpen(conns, g_swipeFd) THEN conns[ConnOf(conns, g_swipeFd)].log
    ELSE <<>>

LastOf(log) == log[Len(log)]

\* C1: a Begin in Idle whose connection attempt fails leaves the session
\* Idle, writes nothing and does not set the cancellation flag.
C1_BeginFailureNotClaimed ==
    (last.op = "swipeBegin" /\ last.preFd < 0 /\ ~last.connectOk)
        => /\ g_swipeFd < 0
           /\ last.writes = 0
           /\ ~last.cancelled

\* C2: inside a gesture whose Begin set the cancellation flag, every Update
\* and the End that return to the host set it too.
C2_ClaimedGestureStaysClaimed ==
    (/\ last.op \in {"swipeUpdate", "swipeEnd"}
     /\ last.inGesture
     /\ last.beginClaimed
     /\ last.returned)
        => last.cancelled

\* C3: after a Begin whose connection attempt failed, and until a Begin
\* whose attempt succeeds, every Update and End makes no system call, leaves
\* the session Idle and does not set the cancellation flag.
C3_AfterFailedBeginNoOps ==
    (last.op \in {"swipeUpdate", "swipeEnd"} /\ last.afterFailedBegin)
        => /\ last.writes = 0
           /\ last.opens = 0
           /\ last.closes = 0
           /\ g_swipeFd < 0
           /\ ~last.cancelled

\* C4: an End in Idle does not set the cancellation flag and writes nothing.
C4_EndIdleNotClaimed ==
    (last.op = "swipeEnd" /\ last.preFd < 0)
        => /\ ~last.cancelled
           /\ last.writes = 0

\* C5: an Update in Active whose payload does not decode still writes one
\* SwipeUpdate, with the finger count recorded at Begin and zero deltas, and
\* sets the cancellation flag.
C5_UndecodableUpdateDegrades ==
    (/\ last.op = "swipeUpdate"
     /\ last.preFd >= 0
     /\ ~last.decodes
     /\ last.returned)
        => /\ last.writes = 1
           /\ HeldLog # <<>>
           /\ LastOf(HeldLog).msg
                  = buildSwipeUpdateJson(last.preFingers, 0, 0) \o <<"\n">>
           /\ last.cancelled

\* C6: a Begin in Idle whose connection attempt succeeds leaves the session
\* holding the new, connected socket; the one write made on that socket is
\* the SwipeBegin line; and the callback, when it returns, has set the
\* cancellation flag.
C6_BeginSuccessActive ==
    (last.op = "swipeBegin" /\ last.preFd < 0 /\ last.connectOk)
        => /\ g_swipeFd >= 0
           /\ FdOpen(conns, g_swipeFd)
           /\ ConnOf(conns, g_swipeFd) = Len(conns)
           /\ conns[Len(conns)].kind = "swipe"
           /\ conns[Len(conns)].connected
           /\ last.opens = 1 /\ last.closes = 0 /\ last.writes = 1
           /\ Len(HeldLog) = 1
           /\ HeldLog[1].msg
                  = <<"{\"SwipeBegin\":{\"fingers\":", "3", "}}", "\n">>
           /\ (last.returned => last.cancelled)

C6_Witness ==
    /\ last.op = "swipeBegin" /\ last.preFd < 0 /\ last.connectOk
    /\ last.returned /\ last.cancelled
    /\ g_swipeFd >= 0

\* C7: an End in Active that returns has written the SwipeEnd line on the
\* session's socket while it was open, has then closed that socket, has
\* left the session Idle, and has set the cancellation flag.
C7_EndActiveSendsThenCloses ==
    (last.op = "swipeEnd" /\ last.preFd >= 0 /\ last.returned)
        => /\ \E i \in 1..Len(conns) :
                  /\ conns[i].fd = last.preFd
                  /\ conns[i].kind = "swipe"
                  /\ ~conns[i].open
                  /\ conns[i].log # <<>>
                  /\ LastOf(conns[i].log).msg = <<"\"SwipeEnd\"", "\n">>
           /\ last.writes = 1
           /\ last.closes = 1
           /\ ~ebadf
           /\ g_swipeFd = -1
           /\ last.cancelled

C7_Witness ==
    /\ last.op = "swipeEnd" /\ last.preFd >= 0 /\ last.returned
    /\ g_swipeFd = -1
    /\ \E i \in 1..Len(conns) : conns[i].fd = last.preFd /\ ~conns[i].open

\* C8: an Update in Idle makes no system call, leaves the descriptor and the
\* finger count as they were, and does not set the cancellation flag.
C8_UpdateIdleNoOp ==
    (last.op = "swipeUpdate" /\ last.preFd < 0)
        => /\ last.writes = 0
           /\ last.opens = 0
           /\ last.closes = 0
           /\ g_swipeFd = last.preFd
           /\ g_swipeFingers = last.preFingers
           /\ last.returned
           /\ ~last.cancelled

C8_Witness ==
    /\ last.op = "swipeUpdate" /\ last.preFd < 0
    /\ last.afterFailedBegin

\* C9: every dispatcher call and every gesture callback returns to the host;
\* none ends the host process.
C9_EveryCallReturns == hostAlive /\ last.returned

(***************************************************************************)
(* What the SwitchTo argument grammar admits: exactly two tokens separated *)
(* by whitespace, each a run of decimal digits.                            *)
(***************************************************************************)
RECURSIVE WordEnd(_, _)
WordEnd(s, p) ==
    IF p <= Len(s) /\ ~IsSpace(s[p]) THEN WordEnd(s, p + 1) ELSE p

RECURSIVE Tokens(_, _)
Tokens(s, p) ==
    LET a == SkipWs(s, p)
    IN  IF a > Len(s) THEN <<>>
        ELSE <<SubSeq(s, a, WordEnd(s, a) - 1)>> \o Tokens(s, WordEnd(s, a))

\* the value of the digits s[p..q-1], for numerals well inside int
RECURSIVE DigitsValue(_, _, _, _)
DigitsValue(s, p, q, acc) ==
    IF p >= q THEN acc
    ELSE DigitsValue(s, p + 1, q, acc * 10 + DigitVal(s[p]))

IsNatToken(t) == t # <<>> /\ \A i \in 1..Len(t) : IsDigit(t[i])

NatOf(t) == DigitsValue(t, 1, Len(t) + 1, 0)

\* C10: the SwitchTo encoder succeeds exactly on two whitespace-separated
\* non-negative integer tokens, and then yields {"SwitchTo":{"x":col,"y":row}};
\* a third token or other text after the row is rejected.
C10_SwitchExactlyTwoTokens ==
    (encOp = "switch")
        => LET toks == Tokens(trim(encArg), 1)
               good == /\ Len(toks) = 2
                       /\ IsNatToken(toks[1])
                       /\ IsNatToken(toks[2])
           IN  /\ encRes.ok <=> good
               /\ good => encRes.value
                            = <<"{\"SwitchTo\":{\"x\":">>
                              \o DecDigits(NatOf(toks[1]))
                              \o <<",\"y\":">>
                              \o DecDigits(NatOf(toks[2])) \o <<"}}">>

(***************************************************************************)
(* What the direction grammar admits: one of the four direction words in   *)
(* any mix of case, with any whitespace before and after it.               *)
(***************************************************************************)
IsBlank(s) == \A i \in 1..Len(s) : IsSpace(s[i])

SpellingOf(arg, word) ==
    \E a \in 0..Len(arg) :
        /\ a + Len(word) <= Len(arg)
        /\ IsBlank(SubSeq(arg, 1, a))
        /\ SubSeq(arg, a + 1, a + Len(word)) \in CaseVariants(word)
        /\ IsBlank(SubSeq(arg, a + Len(word) + 1, Len(arg)))

CanonicalOf(word) ==
    CASE word = <<"l", "e", "f", "t">> -> <<"L", "e", "f", "t">>
      [] word = <<"r", "i", "g", "h", "t">> -> <<"R", "i", "g", "h", "t">>
      [] word = <<"u", "p">> -> <<"U", "p">>
      [] word = <<"d", "o", "w", "n">> -> <<"D", "o", "w", "n">>

WireTag(op) ==
    CASE op = "go" -> "{\"Go\":\""
      [] op = "movego" -> "{\"MoveWindowAndGo\":\""
      [] op = "movetomonitor" -> "{\"MoveWindowToMonitor\":\""

\* C11: each direction-taking encoder maps every spelling of a direction
\* word, in any mix of case and with any surrounding whitespace, to the wire
\* message with the canonical capitalized direction, and rejects every other
\* argument.
C11_DirectionAnyCase ==
    (encOp \in {"go", "movego", "movetomonitor"})
        => /\ \A word \in DirectionWords :
                 SpellingOf(encArg, word)
                     => encRes = [ok |-> TRUE,
                                  value |-> <<WireTag(encOp)>>
                                            \o CanonicalOf(word) \o <<"\"}">>]
           /\ (~\E word \in DirectionWords : SpellingOf(encArg, word))
                 => ~encRes.ok

(***************************************************************************)
(* What the monitor-index grammar admits: a single token, an optional sign *)
(* followed by decimal digits, whose value is not negative and fits int.   *)
(***************************************************************************)
IsIntToken(t) ==
    LET body == IF t # <<>> /\ t[1] \in {"-", "+"} THEN Tail(t) ELSE t
    IN  IsNatToken(body)

IntOf(t) ==
    IF t[1] = "-" THEN -NatOf(Tail(t))
    ELSE IF t[1] = "+" THEN NatOf(Tail(t))
    ELSE NatOf(t)

\* C12: the MoveWindowToMonitorIndex encoder succeeds exactly when the
\* trimmed argument is one integer token with a non-negative value, and then
\* yields {"MoveWindowToMonitorIndex":n}; an extra token, text after the
\* digits, a negative value, an empty or a non-numeric argument is rejected.
C12_IndexSingleToken ==
    (encOp = "movetomonitorindex")
        => LET toks == Tokens(trim(encArg), 1)
               good == /\ Len(toks) = 1
                       /\ IsIntToken(toks[1])
                       /\ IntOf(toks[1]) >= 0
                       /\ IntOf(toks[1]) <= INT_MAX
           IN  /\ encRes.ok <=> good
               /\ good => encRes.value
                            = <<"{\"MoveWindowToMonitorIndex\":">>
                              \o DecDigits(IntOf(toks[1])) \o <<"}">>

C12_Witness ==
    /\ encOp = "movetomonitorindex"
    /\ encRes.ok
    /\ encArg = <<" ", "1", "2", " ">>

\* C13: the endpoint is <XDG_RUNTIME_DIR>/hyprgrd.sock when the variable is
\* set and not empty, and /tmp/hyprgrd.sock in every other case.
C13_EndpointResolution ==
    (encOp = "socketPath")
        => encRes.value
             = IF xdg.set /\ xdg.val # <<>>
               THEN xdg.val \o <<"/hyprgrd.sock">>
               ELSE <<"/tmp/hyprgrd.sock">>

(***************************************************************************)
(* Dispatchers as the host sees them.                                      *)
(***************************************************************************)
ArgOps == {"go", "movego", "switch", "movetomonitor", "movetomonitorindex"}

\* the encoder behind each argument-taking dispatcher
EncoderOf(op, arg) ==
    CASE op = "go" -> buildGoJson(arg)
      [] op = "movego" -> buildMoveGoJson(arg)
      [] op = "switch" -> buildSwitchJson(arg)
      [] op = "movetomonitor" -> buildMoveToMonitorJson(arg)
      [] op = "movetomonitorindex" -> buildMoveToMonitorIndexJson(arg)

SendFailure == DispatchFail(<<"failed to send command">>)

IsOneShot(c) == c.kind = "oneshot"

\* the sockets the most recent call made for a one-shot send
OneShots == SelectSeq(conns, IsOneShot)

\* the most recent call connected a one-shot socket and the whole of
\* json + newline was taken by its only write
OneShotSent(json) ==
    \E i \in 1..Len(OneShots) :
        /\ OneShots[i].connected
        /\ OneShots[i].log = <<[msg |-> json \o <<"\n">>, res |-> "full"]>>

\* C14: when the encoder of an argument-taking dispatcher rejects the
\* argument, the dispatcher returns the failure that carries the encoder's
\* error text and does no I/O: no socket, no connect, no write, no close.
C14_RejectedArgumentNoIo ==
    (last.op \in ArgOps /\ ~EncoderOf(last.op, last.arg).ok)
        => /\ last.returned
           /\ last.result = DispatchFail(EncoderOf(last.op, last.arg).value)
           /\ last.opens = 0 /\ last.writes = 0 /\ last.closes = 0
           /\ OneShots = <<>>
           /\ g_swipeFd = last.preFd

C14_Witness ==
    /\ last.op = "switch"
    /\ last.arg = <<"2">>
    /\ last.connectOk
    /\ last.result
         = DispatchFail(<<"expected: <col> <row> (non-negative integers)">>)
    /\ last.opens = 0

\* C15: a dispatcher call with a valid argument that returns reports success
\* with no error payload exactly when its socket was connected and the whole
\* of message + newline was written, and "failed to send command" when
\* socket() or connect() failed or the write was short or failed; the socket
\* it made is closed either way.
C15_ValidArgumentResult ==
    (last.op \in ArgOps /\ EncoderOf(last.op, last.arg).ok /\ last.returned)
        => /\ last.result \in {DispatchOk, SendFailure}
           /\ last.result.success
                <=> OneShotSent(EncoderOf(last.op, last.arg).value)
           /\ ~last.connectOk => last.result = SendFailure
           /\ \A i \in 1..Len(OneShots) : ~OneShots[i].open
           /\ last.opens = last.closes

C15_Witness ==
    /\ last.op = "go"
    /\ last.connectOk
    /\ last.result = SendFailure
    /\ \E i \in 1..Len(OneShots) :
          /\ Len(OneShots[i].log) = 1
          /\ OneShots[i].log[1]
               = [msg |-> <<"{\"Go\":\"", "U", "p", "\"}", "\n">>,
                  res |-> "short"]

(***************************************************************************)
(* Teardown and closing the persistent connection.                         *)
(***************************************************************************)
\* C16: PLUGIN_EXIT while a session is Active closes the held connection
\* once and writes nothing (no SwipeEnd), leaving no handle held; while Idle
\* it closes nothing and writes nothing.
C16_UnloadClosesWithoutEnd ==
    (last.op = "PLUGIN_EXIT")
        => /\ last.returned
           /\ last.writes = 0 /\ last.opens = 0
           /\ g_swipeFd = -1
           /\ ~ebadf
           /\ (last.preFd >= 0)
                 => /\ last.closes = 1
                    /\ \E i \in 1..Len(conns) :
                          /\ conns[i].fd = last.preFd
                          /\ conns[i].kind = "swipe"
                          /\ ~conns[i].open
                          /\ \A k \in 1..Len(conns[i].log) :
                                conns[i].log[k].msg # buildSwipeEndJson \o <<"\n">>
           /\ (last.preFd < 0) => last.closes = 0

C16_Witness ==
    /\ last.op = "PLUGIN_EXIT"
    /\ last.preFd >= 0
    /\ last.inGesture
    /\ last.closes = 1
    /\ g_swipeFd = -1

\* C17: swipeDisconnect is idempotent.  From every state the program
\* reaches, disconnecting twice leaves the process exactly as disconnecting
\* once does (one close call at most), and with no handle held it changes
\* nothing; an End or an unload that finds no handle issues no close.
C17_DisconnectIdempotent ==
    /\ LET once == swipeDisconnect(Cur)
       IN  /\ swipeDisconnect(once) = once
           /\ once.closes <= 1
           /\ ~once.ebadf
           /\ (g_swipeFd < 0) => once = Cur
    /\ (last.op \in {"swipeEnd", "PLUGIN_EXIT"} /\ last.preFd < 0)
          => last.closes = 0 /\ g_swipeFd = -1 /\ ~ebadf

\* an unload after a gesture whose End already closed the connection
C17_Witness ==
    /\ last.op = "PLUGIN_EXIT"
    /\ last.preFd < 0
    /\ last.beginClaimed /\ ~last.afterFailedBegin /\ ~last.inGesture
    /\ last.closes = 0

\* C18: a swipeEnd that directly follows a swipeEnd does no I/O (no write,
\* no close, no socket), returns, touches no bad descriptor and leaves the
\* session Idle as the first End left it.
C18_SecondEndNoOp ==
    (last.op = "swipeEnd" /\ last.prevEnd)
        => /\ last.returned /\ hostAlive
           /\ last.writes = 0 /\ last.closes = 0 /\ last.opens = 0
           /\ ~ebadf
           /\ last.preFd = -1 /\ g_swipeFd = -1
           /\ g_swipeFingers = last.preFingers
           /\ \A i \in 1..Len(conns) : conns[i].open

C18_Witness ==
    /\ last.op = "swipeEnd"
    /\ last.prevEnd
    /\ last.beginClaimed /\ ~last.afterFailedBegin
    /\ last.writes = 0

IsOpenSwipe(c) == c.kind = "swipe" /\ c.open

\* C19: at most one persistent connection is open at any time, and every
\* open persistent connection is the one the session holds.
C19_NoOrphanedConnection ==
    /\ Len(SelectSeq(conns, IsOpenSwipe)) <= 1
    /\ \A i \in 1..Len(conns) : IsOpenSwipe(conns[i]) => conns[i].fd = g_swipeFd

\* C20: togglevis ignores its argument.  Whatever the argument, the only
\* message it writes is the bare JSON string "ToggleVisualizer" and a
\* newline, a connected socket gets exactly one write, and a call that
\* returns reports success or "failed to send command" according to the send
\* alone, never a validation error.
C20_ToggleIgnoresArgument ==
    (last.op = "togglevis")
        => /\ \A i \in 1..Len(OneShots) :
                 \A k \in 1..Len(OneShots[i].log) :
                    OneShots[i].log[k].msg = <<"\"ToggleVisualizer\"", "\n">>
           /\ last.connectOk => last.writes = 1
           /\ last.returned
                 => /\ last.result \in {DispatchOk, SendFailure}
                    /\ last.result.success
                         <=> OneShotSent(<<"\"ToggleVisualizer\"">>)

C20_Witness ==
    /\ last.op = "togglevis"
    /\ last.arg = <<"x">>
    /\ last.result = DispatchOk
    /\ last.writes = 1

(***************************************************************************)
(* The endpoint across calls, and what the gesture messages carry.         *)
(***************************************************************************)
\* C21: all the connections of one process, one-shot and persistent, are
\* made to the same socket path, also when XDG_RUNTIME_DIR changes between
\* the calls.
C21_EndpointResolvedOnce ==
    \A i, j \in 1..Len(conns) :
        (conns[i].connected /\ conns[j].connected)
            => conns[i].path = conns[j].path

\* C22: the SwipeBegin line written by a Begin that connected carries the
\* finger count of the host's Begin event, and the session records that
\* same count.
C22_BeginCarriesEventFingers ==
    (last.op = "swipeBegin" /\ last.connectOk)
        => /\ HeldLog # <<>>
           /\ HeldLog[1].msg
                = <<"{\"SwipeBegin\":{\"fingers\":">>
                  \o DecDigits(last.evFingers) \o <<"}}", "\n">>
           /\ last.returned => g_swipeFingers = last.evFingers

\* C23: an Update in Active whose payload decodes (4 fingers, dx = 10.5,
\* dy = -2.3, while 3 fingers were recorded at Begin) makes exactly one
\* write on the held connection, the SwipeUpdate line with the event's own
\* finger count and deltas, and sets the cancellation flag when it returns.
C23_UpdateCarriesEventValues ==
    (last.op = "swipeUpdate" /\ last.preFd >= 0 /\ last.decodes)
        => /\ last.writes = 1 /\ last.opens = 0 /\ last.closes = 0
           /\ g_swipeFd = last.preFd
           /\ HeldLog # <<>>
           /\ LastOf(HeldLog).msg
                = <<"{\"SwipeUpdate\":{\"fingers\":", "4",
                    ",\"dx\":", "1", "0", ".", "5", "0", "0", "0", "0", "0",
                    ",\"dy\":", "-", "2", ".", "3", "0", "0", "0", "0", "0",
                    "}}", "\n">>
           /\ last.returned => last.cancelled

C23_Witness ==
    /\ last.op = "swipeUpdate" /\ last.preFd >= 0 /\ last.decodes
    /\ last.preFingers = 3
    /\ last.returned /\ last.cancelled
    /\ Len(HeldLog) >= 2

(***************************************************************************)
(* What the encoders let through.                                          *)
(***************************************************************************)
\* C24: the error of a direction-taking encoder is "invalid direction: "
\* followed by the argument exactly as passed: not trimmed, not capitalized.
C24_ErrorCarriesRawArgument ==
    (encOp \in {"go", "movego", "movetomonitor"} /\ ~encRes.ok)
        => encRes.value = <<"invalid direction: ">> \o encArg

C24_Witness ==
    /\ encOp = "movetomonitor"
    /\ ~encRes.ok
    /\ encArg = <<" ", "a", " ">>
    /\ encRes.value = <<"invalid direction: ", " ", "a", " ">>

\* the fixed pieces of the five command templates
TemplatePieces ==
    {"{\"Go\":\"", "{\"MoveWindowAndGo\":\"", "{\"MoveWindowToMonitor\":\"",
     "\"}", "{\"SwitchTo\":{\"x\":", ",\"y\":", "}}",
     "{\"MoveWindowToMonitorIndex\":", "}"}

\* the characters a payload may consist of: the letters of the direction
\* words and the decimal digits
PayloadChars ==
    {"L", "e", "f", "t", "R", "i", "g", "h", "U", "p", "D", "o", "w", "n"}
    \cup {Digits[i] : i \in 1..Len(Digits)}

\* C30: a successfully encoded command is the fixed template with payload
\* characters that are letters of a direction word or digits: no newline,
\* no backslash and no double quote comes from the argument, and the
\* template opens once and closes once.
C30_NoInjection ==
    (/\ encOp \in {"go", "movego", "switch", "movetomonitor",
                   "movetomonitorindex"}
     /\ encRes.ok)
        => LET v      == encRes.value
               pieces == {i \in 1..Len(v) : v[i] \in TemplatePieces}
           IN  /\ \A i \in 1..Len(v) : v[i] \in TemplatePieces \cup PayloadChars
               /\ 1 \in pieces /\ Len(v) \in pieces
               /\ Cardinality(pieces) = IF encOp = "switch" THEN 3 ELSE 2
               /\ \A i \in 1..Len(v) : v[i] \notin {"\n", "\\", "\""}

C30_Witness ==
    /\ encOp = "switch"
    /\ encArg = <<"1", " ", "2", "\n", "1">>
    /\ encRes = [ok |-> TRUE,
                 value |-> <<"{\"SwitchTo\":{\"x\":", "1", ",\"y\":", "2", "}}">>]

(***************************************************************************)
(* Delivery: what one call writes, and on which connection.                *)
(***************************************************************************)
DispatchOps == ArgOps \cup {"togglevis"}

CallbackOps == {"swipeBegin", "swipeUpdate", "swipeEnd"}

\* how the message of each operation begins
OwnPrefix(op) ==
    CASE op = "swipeBegin" -> "{\"SwipeBegin\":{\"fingers\":"
      [] op = "swipeUpdate" -> "{\"SwipeUpdate\":{\"fingers\":"
      [] op = "swipeEnd" -> "\"SwipeEnd\""
      [] op = "go" -> "{\"Go\":\""
      [] op = "movego" -> "{\"MoveWindowAndGo\":\""
      [] op = "switch" -> "{\"SwitchTo\":{\"x\":"
      [] op = "movetomonitor" -> "{\"MoveWindowToMonitor\":\""
      [] op = "movetomonitorindex" -> "{\"MoveWindowToMonitorIndex\":"
      [] op = "togglevis" -> "\"ToggleVisualizer\""

\* the log of the socket the most recent call wrote on
WrittenLog ==
    IF last.op \in DispatchOps
    THEN IF OneShots = <<>> THEN <<>> ELSE OneShots[Len(OneShots)].log
    ELSE IF last.op = "swipeEnd"
    THEN LET S == {i \in 1..Len(conns) : conns[i].fd = last.preFd
                                         /\ conns[i].kind = "swipe"
                                         /\ ~conns[i].open}
         IN  IF S = {} THEN HeldLog ELSE conns[CHOOSE i \in S : TRUE].log
    ELSE HeldLog

\* C25: no call retries, buffers or batches.  A dispatcher call makes at
\* most one socket (so at most one connection attempt) and at most one
\* write; a gesture callback makes at most one write; the unload makes
\* none; and the one message a call writes is that call's own message, never
\* the message of an earlier call.
C25_NoRetryNoBatch ==
    /\ last.writes <= 1
    /\ last.opens <= 1
    /\ last.op \in DispatchOps => Len(OneShots) <= 1
    /\ last.op = "PLUGIN_EXIT" => last.writes = 0
    /\ (last.op \in DispatchOps \cup CallbackOps /\ last.writes = 1)
          => /\ WrittenLog # <<>>
             /\ LastOf(WrittenLog).msg[1] = OwnPrefix(last.op)
             /\ last.op \in DispatchOps => Len(WrittenLog) = 1

\* a dispatcher whose only write was short and was not repeated
C25_Witness ==
    /\ last.op = "go"
    /\ last.writes = 1
    /\ last.result = SendFailure
    /\ WrittenLog = <<[msg |-> <<"{\"Go\":\"", "U", "p", "\"}", "\n">>,
                       res |-> "short"]>>

IsBeginMsg(e) == e.msg[1] = "{\"SwipeBegin\":{\"fingers\":"

IsUpdateMsg(e) == e.msg[1] = "{\"SwipeUpdate\":{\"fingers\":"

IsEndMsg(e) == e.msg = <<"\"SwipeEnd\"", "\n">>

\* Begin, then Updates, then at most one End, which is last
GestureOrder(log) ==
    /\ log # <<>>
    /\ IsBeginMsg(log[1])
    /\ \A k \in 2..Len(log) :
          \/ IsUpdateMsg(log[k])
          \/ k = Len(log) /\ IsEndMsg(log[k])

\* C26: what is written on a persistent connection is one SwipeBegin, then
\* SwipeUpdates, then one SwipeEnd followed by the close, or the same cut
\* short before SwipeEnd when the plugin is unloaded; nothing comes before
\* SwipeBegin and nothing after SwipeEnd.
C26_GestureMessageOrder ==
    \A i \in 1..Len(conns) :
        (conns[i].kind = "swipe" /\ conns[i].connected
         /\ (conns[i].log # <<>> \/ Held(conns[i]) \/ ~conns[i].open))
            => /\ GestureOrder(conns[i].log)
               /\ (IsEndMsg(LastOf(conns[i].log)) /\ hostAlive)
                     => ~conns[i].open /\ last.op = "swipeEnd"
               /\ (~conns[i].open /\ last.op = "swipeEnd")
                     => IsEndMsg(LastOf(conns[i].log))
               /\ (~conns[i].open /\ last.op = "PLUGIN_EXIT")
                     => ~IsEndMsg(LastOf(conns[i].log))

C26_Witness ==
    /\ last.op = "swipeEnd"
    /\ \E i \in 1..Len(conns) :
          /\ conns[i].kind = "swipe" /\ ~conns[i].open
          /\ Len(conns[i].log) = 3
          /\ IsBeginMsg(conns[i].log[1])
          /\ IsUpdateMsg(conns[i].log[2])
          /\ IsEndMsg(conns[i].log[3])

\* C27: a dispatcher call leaves the session as it found it, whether it
\* succeeds or fails: the held descriptor, the finger count and the gesture
\* are unchanged, the held connection is still open, and every write the
\* call made is on the call's own one-shot socket, whose descriptor is not
\* the session's.
C27_DispatchLeavesSession ==
    (last.op \in DispatchOps)
        => /\ g_swipeFd = last.preFd
           /\ g_swipeFingers = last.preFingers
           /\ gesture.open = last.inGesture
           /\ last.preFd >= 0 => FdOpen(conns, last.preFd)
           /\ last.writes = IF OneShots = <<>> THEN 0
                            ELSE Len(OneShots[1].log)
           /\ \A i \in 1..Len(OneShots) : OneShots[i].fd # g_swipeFd

C27_Witness ==
    /\ last.op = "go"
    /\ last.preFd >= 0
    /\ last.inGesture
    /\ last.result = DispatchOk
    /\ g_swipeFd = last.preFd
    /\ Len(HeldLog) = 1

\* C28: a one-shot send leaves no socket open.  While the host runs, no
\* one-shot socket is open between calls, and a dispatcher call that returns
\* has closed exactly the sockets it made, each once and none twice.
C28_OneShotAlwaysClosed ==
    /\ hostAlive => \A i \in 1..Len(OneShots) : ~OneShots[i].open
    /\ (last.op \in DispatchOps /\ last.returned)
          => /\ last.closes = last.opens
             /\ Len(OneShots) = last.opens
             /\ ~ebadf

C28_Witness ==
    /\ last.op = "switch"
    /\ last.opens = 1 /\ last.closes = 1
    /\ ~last.connectOk
    /\ last.writes = 0
    /\ Len(OneShots) = 1 /\ ~OneShots[1].open /\ ~OneShots[1].connected

\* C29: the held descriptor is negative or is that of an open, connected
\* persistent socket, and no write or close was ever issued on a descriptor
\* that is not open.
C29_HeldHandleValid ==
    /\ \/ g_swipeFd < 0
       \/ /\ FdOpen(conns, g_swipeFd)
          /\ conns[ConnOf(conns, g_swipeFd)].kind = "swipe"
          /\ conns[ConnOf(conns, g_swipeFd)].connected
    /\ ~ebadf

\* a Begin whose socket() succeeded and whose connect() failed
C29_Witness ==
    /\ last.op = "swipeBegin"
    /\ last.opens = 1 /\ last.closes = 1
    /\ ~last.connectOk
    /\ g_swipeFd = -1

(***************************************************************************)
(* Integers as digit strings: the decimal value of a token is compared     *)
(* without computing it.                                                   *)
(***************************************************************************)
\* the digits of an integer token, without its sign
DigitsOfToken(t) == IF t[1] \in {"-", "+"} THEN Tail(t) ELSE t

\* without leading zeros: the decimal numeral of the same value
RECURSIVE StripZeros(_)
StripZeros(ds) ==
    IF Len(ds) > 1 /\ ds[1] = "0" THEN StripZeros(Tail(ds)) ELSE ds

IntMaxDigits == <<"2", "1", "4", "7", "4", "8", "3", "6", "4", "7">>

\* a <= b for numerals of the same length
RECURSIVE NumeralLeq(_, _)
NumeralLeq(a, b) ==
    IF a = <<>> THEN TRUE
    ELSE IF DigitVal(a[1]) < DigitVal(b[1]) THEN TRUE
    ELSE IF DigitVal(a[1]) > DigitVal(b[1]) THEN FALSE
    ELSE NumeralLeq(Tail(a), Tail(b))

\* the numeral (no leading zeros) is larger than the largest int
ExceedsInt(numeral) ==
    \/ Len(numeral) > Len(IntMaxDigits)
    \/ Len(numeral) = Len(IntMaxDigits) /\ ~NumeralLeq(numeral, IntMaxDigits)

\* the integers of an encoded SwitchTo or MoveWindowToMonitorIndex command
EmittedInts(op, v) ==
    IF op = "switch"
    THEN LET k == CHOOSE i \in 1..Len(v) : v[i] = ",\"y\":"
         IN  <<SubSeq(v, 2, k - 1), SubSeq(v, k + 1, Len(v) - 1)>>
    ELSE <<SubSeq(v, 2, Len(v) - 1)>>

\* C31: the integers of SwitchTo and MoveWindowToMonitorIndex never wrap.
\* Every integer of a successful command is a non-negative numeral within
\* int; when the argument is the expected number of integer tokens, each
\* emitted integer is the numeral of its token's value, and a token whose
\* magnitude is beyond int makes the encoder fail.
C31_IntegersNeverWrap ==
    (encOp \in {"switch", "movetomonitorindex"})
        => LET toks  == Tokens(trim(encArg), 1)
               n     == IF encOp = "switch" THEN 2 ELSE 1
               wellFormed == /\ Len(toks) = n
                             /\ \A k \in 1..n : IsIntToken(toks[k])
               out   == EmittedInts(encOp, encRes.value)
               numeral(k) == StripZeros(DigitsOfToken(toks[k]))
           IN  /\ encRes.ok
                    => \A k \in 1..n :
                          /\ IsNatToken(out[k])
                          /\ StripZeros(out[k]) = out[k]
                          /\ ~ExceedsInt(out[k])
               /\ (wellFormed /\ encRes.ok)
                    => \A k \in 1..n : out[k] = numeral(k)
               /\ (wellFormed /\ \E k \in 1..n : ExceedsInt(numeral(k)))
                    => ~encRes.ok

\* 2^32 + 1, which a wrapping 32-bit parse would read as 1
C31_Witness ==
    /\ encOp = "movetomonitorindex"
    /\ encArg = <<"4", "2", "9", "4", "9", "6", "7", "2", "9", "7">>
    /\ ~encRes.ok

====
